---- MODULE Spec2Model ----
(***************************************************************************)
(* A model of the two bit-packed containers of programming-pearls:         *)
(*   BitVector    (src/bitvector.py)    a set of integers, one bit each    *)
(*   NibbleVector (src/nibblevector.py) an array of 4-bit values           *)
(* Each method is an operator from the object (and its arguments) to the   *)
(* record [self, err, val]: the object after the call, the exception the   *)
(* call raised ("none" when it returned) and the value it returned.        *)
(* A bytearray is a sequence of integers 0..255; Python's index p is the   *)
(* sequence's index p + 1.  Python 2's / and % on integers are floor       *)
(* division and the non-negative remainder, as \div and % are here.        *)
(***************************************************************************)
EXTENDS Integers, Sequences, FiniteSets

VARIABLES bv, nv, call, added, unordered, trav, yielded, dirty

vars == <<bv, nv, call, added, unordered, trav, yielded, dirty>>

(***************************************************************************)
(* Bounds of the model.                                                    *)
(***************************************************************************)
\* BitVector capacities are 0..MaxMaxval.
MaxMaxval == 9
\* set/contains arguments reach up to maxval + ArgSlack.
ArgSlack == 2
\* With arbitrary integer arguments: capacities 0..AnyMaxval, arguments from -NegSpan.
AnyMaxval == 3
NegSpan == 9
\* NibbleVector lengths are 0..MaxSize; keys reach KeySlack past either end.
MaxSize == 3
KeySlack == 1

\* The values stored by __setitem__: bit patterns of every weight, and the
\* values just outside range(0, 16).
NibbleValues == {0, 1, 6, 9, 15}
BadValues == {-1, 16}

(***************************************************************************)
(* Python's integer operators, on non-negative integers.                   *)
(***************************************************************************)
RECURSIVE Pow2(_)
Pow2(n) == IF n <= 0 THEN 1 ELSE 2 * Pow2(n - 1)

Shl(a, n) == a * Pow2(n)

Shr(a, n) == a \div Pow2(n)

RECURSIVE BitAnd(_, _)
BitAnd(a, b) ==
    IF a = 0 \/ b = 0 THEN 0
    ELSE (a % 2) * (b % 2) + 2 * BitAnd(a \div 2, b \div 2)

RECURSIVE BitOr(_, _)
BitOr(a, b) ==
    IF a = 0 THEN b
    ELSE IF b = 0 THEN a
    ELSE (IF (a % 2) + (b % 2) > 0 THEN 1 ELSE 0) + 2 * BitOr(a \div 2, b \div 2)

RECURSIVE BitXor(_, _)
BitXor(a, b) ==
    IF a = 0 THEN b
    ELSE IF b = 0 THEN a
    ELSE (((a % 2) + (b % 2)) % 2) + 2 * BitXor(a \div 2, b \div 2)

\* bytearray(n): n zero bytes.
ByteArray(n) == [i \in 1..n |-> 0]

\* The sequence index of Python's ba[pos]: a negative pos counts from the end.
\* The index is outside 1..Len(ba) exactly when Python raises IndexError.
PyIndex(ba, pos) == IF pos < 0 THEN pos + Len(ba) + 1 ELSE pos + 1

Raise(self, e) == [self |-> self, err |-> e, val |-> "None"]

Return(self, v) == [self |-> self, err |-> "none", val |-> v]

\* ba[pos] = b: a bytearray holds only integers in range(0, 256).
StoreByte(self, pos, b) ==
    IF PyIndex(self.ba, pos) \notin 1..Len(self.ba) THEN Raise(self, "IndexError")
    ELSE IF b < 0 \/ b > 255 THEN Raise(self, "ByteRange")
    ELSE Return([self EXCEPT !.ba[PyIndex(self.ba, pos)] = b], "None")

(***************************************************************************)
(* BitVector                                                               *)
(***************************************************************************)
\* BitVector(maxval): maxval / 8 + 1 zero bytes.
BitVector_init(maxval) == [maxval |-> maxval, ba |-> ByteArray((maxval \div 8) + 1)]

\* A set whose shift counts the bit from the wrong end of the byte.
BitVector_set_lsb(self, num) ==
    IF num >= self.maxval THEN Raise(self, "OutOfRange")
    ELSE LET byte_pos == num \div 8
             bit_pos == num % 8
         IN  IF PyIndex(self.ba, byte_pos) \notin 1..Len(self.ba)
             THEN Raise(self, "IndexError")
             ELSE StoreByte(self, byte_pos,
                      BitOr(self.ba[PyIndex(self.ba, byte_pos)], Shl(1, bit_pos)))

\* A set whose range check lets num = maxval through.
BitVector_set_gt(self, num) ==
    IF num > self.maxval THEN Raise(self, "OutOfRange")
    ELSE LET byte_pos == num \div 8
             bit_pos == num % 8
         IN  IF PyIndex(self.ba, byte_pos) \notin 1..Len(self.ba)
             THEN Raise(self, "IndexError")
             ELSE StoreByte(self, byte_pos,
                      BitOr(self.ba[PyIndex(self.ba, byte_pos)], Shl(1, 7 - bit_pos)))

\* set(num): raise when num >= maxval, else OR the bit 7 - num % 8 into byte
\* num / 8.  Reading ba[byte_pos] raises IndexError when byte_pos is outside
\* the bytearray, and takes a negative byte_pos from the end.
BitVector_set(self, num) ==
    IF num >= self.maxval THEN Raise(self, "OutOfRange")
    ELSE LET byte_pos == num \div 8
             bit_pos == num % 8
         IN  IF PyIndex(self.ba, byte_pos) \notin 1..Len(self.ba)
             THEN Raise(self, "IndexError")
             ELSE StoreByte(self, byte_pos,
                      BitOr(self.ba[PyIndex(self.ba, byte_pos)], Shl(1, 7 - bit_pos)))

\* contains(num): 255 == (1 << (7 - bit_pos)) ^ 255 | ba[byte_pos].
BitVector_contains(self, num) ==
    IF num >= self.maxval THEN Raise(self, "OutOfRange")
    ELSE LET byte_pos == num \div 8
             bit_pos == num % 8
             raw == Shl(1, 7 - bit_pos)
             masked == BitXor(raw, 255)
         IN  IF PyIndex(self.ba, byte_pos) \notin 1..Len(self.ba)
             THEN Raise(self, "IndexError")
             ELSE Return(self, 255 = BitOr(masked, self.ba[PyIndex(self.ba, byte_pos)]))

\* [i for i in range(lo, hi) if self.contains(i)]
RECURSIVE Scan(_, _, _)
Scan(self, lo, hi) ==
    IF lo >= hi THEN <<>>
    ELSE (IF BitVector_contains(self, lo).val = TRUE THEN <<lo>> ELSE <<>>)
         \o Scan(self, lo + 1, hi)

\* A convert_to_list that stops one short of maxval.
BitVector_convert_to_list_short(self) == Return(self, Scan(self, 0, self.maxval - 1))

\* convert_to_list(): the scan of range(maxval).
BitVector_convert_to_list(self) == Return(self, Scan(self, 0, self.maxval))

\* What a call leaves behind: the method, its arguments, the bytearray before
\* the call, the exception raised and the value returned.
Called(op, key, value, before, r) ==
    [op |-> op, key |-> key, value |-> value, before |-> before,
     err |-> r.err, val |-> r.val]

NoCall == [op |-> "none", key |-> 0, value |-> 0, before |-> <<>>,
           err |-> "none", val |-> "None"]

\* No element of s is above num.
IsMax(num, s) == \A e \in s : e <= num

\* bv.set(num).  added collects the arguments of the calls that returned;
\* unordered records that an element was set after a larger one.
Set(num) ==
    LET r == BitVector_set(bv, num) IN
    /\ bv' = r.self
    /\ call' = Called("set", num, 0, bv.ba, r)
    /\ added' = IF r.err = "none" THEN added \cup {num} ELSE added
    /\ unordered' = (unordered \/ (r.err = "none" /\ ~IsMax(num, added)))
    /\ UNCHANGED <<nv, trav, yielded, dirty>>

\* bv.contains(num)
Contains(num) ==
    LET r == BitVector_contains(bv, num) IN
    /\ bv' = r.self
    /\ call' = Called("contains", num, 0, bv.ba, r)
    /\ UNCHANGED <<nv, added, unordered, trav, yielded, dirty>>

\* bv.convert_to_list()
ConvertToList ==
    LET r == BitVector_convert_to_list(bv) IN
    /\ bv' = r.self
    /\ call' = Called("convert_to_list", 0, 0, bv.ba, r)
    /\ UNCHANGED <<nv, added, unordered, trav, yielded, dirty>>

\* The container a specification does not exercise is left as constructed
\* with length 0.
InitOther ==
    /\ call = NoCall
    /\ added = {}
    /\ unordered = FALSE
    /\ trav = "none"
    /\ yielded = <<>>
    /\ dirty = FALSE

\* BitVector(maxval) for a capacity 0..MaxMaxval.
InitBitVector ==
    /\ \E maxval \in 0..MaxMaxval : bv = BitVector_init(maxval)
    /\ nv = [size |-> 0, ba |-> <<>>, index |-> 0]
    /\ InitOther

\* The calls a client makes with arguments num >= 0.
NextBitVector ==
    \/ \E num \in 0..(bv.maxval + ArgSlack) : Set(num)
    \/ \E num \in 0..(bv.maxval + ArgSlack) : Contains(num)
    \/ ConvertToList

SpecBitVector == InitBitVector /\ [][NextBitVector]_vars

\* BitVector(maxval) for a capacity 0..AnyMaxval.
InitBitVectorAnyInt ==
    /\ \E maxval \in 0..AnyMaxval : bv = BitVector_init(maxval)
    /\ nv = [size |-> 0, ba |-> <<>>, index |-> 0]
    /\ InitOther

\* The calls a client makes with any integer argument, negative ones included.
NextBitVectorAnyInt ==
    \/ \E num \in (0 - NegSpan)..(bv.maxval + 1) : Set(num)
    \/ \E num \in (0 - NegSpan)..(bv.maxval + 1) : Contains(num)
    \/ ConvertToList

SpecBitVectorAnyInt == InitBitVectorAnyInt /\ [][NextBitVectorAnyInt]_vars

(***************************************************************************)
(* NibbleVector                                                            *)
(***************************************************************************)
\* NibbleVector(size): (size + 1) / 2 zero bytes, and the iterator's index.
NibbleVector_init(size) ==
    [size |-> size, ba |-> ByteArray((size + 1) \div 2), index |-> 0]

\* len(nv)
NibbleVector_len(self) == Return(self, self.size)

RECURSIVE NibbleVector_getitem(_, _)
RECURSIVE NibbleVector_setitem(_, _, _)

\* A __getitem__ that takes a negative key as -key - 1.
NibbleVector_getitem_mirror(self, key) ==
    IF key >= self.size \/ key < 0 - self.size THEN Raise(self, "OutOfRange")
    ELSE IF key < 0 THEN NibbleVector_getitem(self, (0 - key) - 1)
    ELSE LET byte_pos == key \div 2
             nib_pos == key % 2
             mask == Shl(15, 4 * (1 - nib_pos))
         IN  IF PyIndex(self.ba, byte_pos) \notin 1..Len(self.ba)
             THEN Raise(self, "IndexError")
             ELSE Return(self, Shr(BitAnd(self.ba[PyIndex(self.ba, byte_pos)], mask),
                                   4 * (1 - nib_pos)))

\* nv[key]: the range check, a negative key taken as size + key, then the
\* nibble (high for an even key, low for an odd one) of byte key / 2.
NibbleVector_getitem(self, key) ==
    IF key >= self.size \/ key < 0 - self.size THEN Raise(self, "OutOfRange")
    ELSE IF key < 0 THEN NibbleVector_getitem(self, self.size + key)
    ELSE LET byte_pos == key \div 2
             nib_pos == key % 2
             mask == Shl(15, 4 * (1 - nib_pos))
         IN  IF PyIndex(self.ba, byte_pos) \notin 1..Len(self.ba)
             THEN Raise(self, "IndexError")
             ELSE Return(self, Shr(BitAnd(self.ba[PyIndex(self.ba, byte_pos)], mask),
                                   4 * (1 - nib_pos)))

\* A __setitem__ that keeps the target nibble (the mask __getitem__ extracts
\* with) instead of the sibling.
NibbleVector_setitem_keeptarget(self, key, value) ==
    IF key >= self.size \/ key < 0 - self.size THEN Raise(self, "OutOfRange")
    ELSE IF value < 0 \/ value >= 16 THEN Raise(self, "InvalidValue")
    ELSE IF key < 0 THEN NibbleVector_setitem(self, self.size + key, value)
    ELSE LET byte_pos == key \div 2
             nib_pos == key % 2
             mask == Shl(15, 4 * (1 - nib_pos))
         IN  IF PyIndex(self.ba, byte_pos) \notin 1..Len(self.ba)
             THEN Raise(self, "IndexError")
             ELSE StoreByte(self, byte_pos,
                      BitAnd(self.ba[PyIndex(self.ba, byte_pos)], mask)
                      + Shl(value, 4 * (1 - nib_pos)))

\* A __setitem__ that stores the shifted value without the masked byte.
NibbleVector_setitem_nomask(self, key, value) ==
    IF key >= self.size \/ key < 0 - self.size THEN Raise(self, "OutOfRange")
    ELSE IF value < 0 \/ value >= 16 THEN Raise(self, "InvalidValue")
    ELSE IF key < 0 THEN NibbleVector_setitem(self, self.size + key, value)
    ELSE LET byte_pos == key \div 2
             nib_pos == key % 2
         IN  IF PyIndex(self.ba, byte_pos) \notin 1..Len(self.ba)
             THEN Raise(self, "IndexError")
             ELSE StoreByte(self, byte_pos, Shl(value, 4 * (1 - nib_pos)))

\* A __setitem__ whose value check lets 16 through.
NibbleVector_setitem_le16(self, key, value) ==
    IF key >= self.size \/ key < 0 - self.size THEN Raise(self, "OutOfRange")
    ELSE IF value < 0 \/ value > 16 THEN Raise(self, "InvalidValue")
    ELSE IF key < 0 THEN NibbleVector_setitem(self, self.size + key, value)
    ELSE LET byte_pos == key \div 2
             nib_pos == key % 2
             mask == Shl(15, 4 * nib_pos)
         IN  IF PyIndex(self.ba, byte_pos) \notin 1..Len(self.ba)
             THEN Raise(self, "IndexError")
             ELSE StoreByte(self, byte_pos,
                      BitAnd(self.ba[PyIndex(self.ba, byte_pos)], mask)
                      + Shl(value, 4 * (1 - nib_pos)))

\* A __setitem__ that checks the value before the key.
NibbleVector_setitem_valuefirst(self, key, value) ==
    IF value < 0 \/ value >= 16 THEN Raise(self, "InvalidValue")
    ELSE IF key >= self.size \/ key < 0 - self.size THEN Raise(self, "OutOfRange")
    ELSE IF key < 0 THEN NibbleVector_setitem(self, self.size + key, value)
    ELSE LET byte_pos == key \div 2
             nib_pos == key % 2
             mask == Shl(15, 4 * nib_pos)
         IN  IF PyIndex(self.ba, byte_pos) \notin 1..Len(self.ba)
             THEN Raise(self, "IndexError")
             ELSE StoreByte(self, byte_pos,
                      BitAnd(self.ba[PyIndex(self.ba, byte_pos)], mask)
                      + Shl(value, 4 * (1 - nib_pos)))

\* nv[key] = value: the range check, the value check, a negative key taken
\* as size + key, then the byte masked with 15 << (4 * nib_pos), which keeps
\* the sibling nibble, plus the value shifted to the target nibble.
NibbleVector_setitem(self, key, value) ==
    IF key >= self.size \/ key < 0 - self.size THEN Raise(self, "OutOfRange")
    ELSE IF value < 0 \/ value >= 16 THEN Raise(self, "InvalidValue")
    ELSE IF key < 0 THEN NibbleVector_setitem(self, self.size + key, value)
    ELSE LET byte_pos == key \div 2
             nib_pos == key % 2
             mask == Shl(15, 4 * nib_pos)
         IN  IF PyIndex(self.ba, byte_pos) \notin 1..Len(self.ba)
             THEN Raise(self, "IndexError")
             ELSE StoreByte(self, byte_pos,
                      BitAnd(self.ba[PyIndex(self.ba, byte_pos)], mask)
                      + Shl(value, 4 * (1 - nib_pos)))

\* iter(nv): the vector itself, as it is.
NibbleVector_iter(self) == Return(self, "self")

\* nv.next(): StopIteration once index = size, else nv[index], and index
\* moves on.  Nothing sets index back.
NibbleVector_next(self) ==
    IF self.index = self.size THEN Raise(self, "StopIteration")
    ELSE LET r == NibbleVector_getitem(self, self.index)
         IN  IF r.err # "none" THEN r
             ELSE Return([self EXCEPT !.index = self.index + 1], r.val)

Keys == (0 - (nv.size + KeySlack))..(nv.size + KeySlack - 1)

\* nv[key]
GetItem(key) ==
    LET r == NibbleVector_getitem(nv, key) IN
    /\ nv' = r.self
    /\ call' = Called("getitem", key, 0, nv.ba, r)
    /\ UNCHANGED <<bv, added, unordered, trav, yielded, dirty>>

\* nv[key] = value
SetItem(key, value) ==
    LET r == NibbleVector_setitem(nv, key, value) IN
    /\ nv' = r.self
    /\ call' = Called("setitem", key, value, nv.ba, r)
    /\ UNCHANGED <<bv, added, unordered, trav, yielded, dirty>>

\* len(nv)
Length ==
    LET r == NibbleVector_len(nv) IN
    /\ nv' = r.self
    /\ call' = Called("len", 0, 0, nv.ba, r)
    /\ UNCHANGED <<bv, added, unordered, trav, yielded, dirty>>

\* NibbleVector(size) for a length 0..MaxSize.
InitNibbleVector ==
    /\ \E size \in 0..MaxSize : nv = NibbleVector_init(size)
    /\ bv = [maxval |-> 0, ba |-> <<0>>]
    /\ InitOther

\* The indexed calls a client makes.
NextNibbleVector ==
    \/ \E key \in Keys : GetItem(key)
    \/ \E key \in Keys : \E value \in NibbleValues \cup BadValues : SetItem(key, value)
    \/ Length

SpecNibbleVector == InitNibbleVector /\ [][NextNibbleVector]_vars

\* for n in nv: the loop calls iter(nv) once.  yielded collects what this
\* loop's body has seen; dirty records an assignment to the vector since.
ForStart ==
    LET r == NibbleVector_iter(nv) IN
    /\ trav # "running"
    /\ nv' = r.self
    /\ trav' = "running"
    /\ yielded' = <<>>
    /\ dirty' = FALSE
    /\ UNCHANGED <<bv, call, added, unordered>>

\* The loop calls nv.next() and runs its body, or ends on StopIteration.
ForStep ==
    LET r == NibbleVector_next(nv) IN
    /\ trav = "running"
    /\ nv' = r.self
    /\ trav' = IF r.err = "none" THEN "running" ELSE "done"
    /\ yielded' = IF r.err = "none" THEN Append(yielded, r.val) ELSE yielded
    /\ UNCHANGED <<bv, call, added, unordered, dirty>>

\* nv[key] = value, between two loops or in a loop's body.
ForSetItem(key, value) ==
    LET r == NibbleVector_setitem(nv, key, value) IN
    /\ nv' = r.self
    /\ dirty' = (dirty \/ (trav # "none" /\ r.self # nv))
    /\ UNCHANGED <<bv, call, added, unordered, trav, yielded>>

NextNibbleIter ==
    \/ \E key \in Keys : \E value \in NibbleValues \cup BadValues : ForSetItem(key, value)
    \/ ForStart
    \/ ForStep

SpecNibbleIter == InitNibbleVector /\ [][NextNibbleIter]_vars

(***************************************************************************)
(* The layouts the properties are stated against, by arithmetic on the     *)
(* bytes: element e of a BitVector is bit e % 8, counted from the most     *)
(* significant, of byte e / 8; slot i of a NibbleVector is the high        *)
(* (i even) or low (i odd) half of byte i / 2.                             *)
(***************************************************************************)
BitOf(ba, e) == (ba[(e \div 8) + 1] \div Pow2(7 - (e % 8))) % 2

NibbleOf(ba, i) ==
    IF i % 2 = 0 THEN ba[(i \div 2) + 1] \div 16 ELSE ba[(i \div 2) + 1] % 16

Norm(key) == IF key < 0 THEN nv.size + key ELSE key

Elements == 0..(bv.maxval - 1)

Slots == 0..(nv.size - 1)

\* The object of the last call as it was before the call.
BvBefore == [bv EXCEPT !.ba = call.before]

NvBefore == [nv EXCEPT !.ba = call.before]

(***************************************************************************)
(* BitVector: properties                                                   *)
(***************************************************************************)
\* C2: with set arguments in [0, maxval) (and rejected ones beyond), in every
\* state contains(e) is true exactly for the elements set earlier: nothing in
\* a fresh vector, e after set(e), no other element changed by set(e), a
\* repeated set(e) changes nothing, and no call removes an element.
C2_ContainsExactlyTheSet ==
    bv.maxval > 0 =>
        /\ \A e \in Elements :
              /\ BitVector_contains(bv, e).err = "none"
              /\ BitVector_contains(bv, e).val = (e \in added)
              /\ BitOf(bv.ba, e) = (IF e \in added THEN 1 ELSE 0)
        /\ (call.op = "set" /\ call.key \in Elements) =>
              /\ call.err = "none"
              /\ BitVector_contains(bv, call.key).val = TRUE
              /\ \A e \in Elements \ {call.key} :
                    BitVector_contains(bv, e).val = BitVector_contains(BvBefore, e).val
              /\ (BitVector_contains(BvBefore, call.key).val = TRUE) => (bv.ba = call.before)
        /\ (call.op \in {"contains", "convert_to_list"}) => (bv.ba = call.before)

\* A second set of an element of the first byte, in a vector that also holds
\* element 8 of the second byte.
C2_Witness ==
    /\ call.op = "set"
    /\ call.err = "none"
    /\ call.key \in 1..7
    /\ BitVector_contains(BvBefore, call.key).val = TRUE
    /\ 8 \in added
    /\ Cardinality(added) >= 3

\* C3: set(e) and contains(e) with e >= maxval raise the out-of-range error,
\* e = maxval and the padding bits of the last byte included, and leave the
\* bytearray as it was.
C3_OutOfRangeRejected ==
    (call.op \in {"set", "contains"} /\ call.key >= bv.maxval) =>
        /\ call.err = "OutOfRange"
        /\ bv.ba = call.before

\* set(maxval) rejected although the bit exists in the last byte, on a
\* vector that holds elements.
C3_Witness ==
    /\ call.op = "set"
    /\ call.key = bv.maxval
    /\ (call.key \div 8) + 1 <= Len(bv.ba)
    /\ call.err = "OutOfRange"
    /\ Cardinality(added) >= 2

\* C4: convert_to_list() returns, strictly ascending, exactly the elements
\* of [0, maxval) that contains() reports, which are the elements set,
\* in whatever order they were set, and leaves the bytearray as it was.
C4_ListIsTheSetAscending ==
    (call.op = "convert_to_list") =>
        /\ call.err = "none"
        /\ \A i \in 1..(Len(call.val) - 1) : call.val[i] < call.val[i + 1]
        /\ {call.val[i] : i \in 1..Len(call.val)}
              = {e \in Elements : BitVector_contains(bv, e).val = TRUE}
        /\ {call.val[i] : i \in 1..Len(call.val)} = added
        /\ bv.ba = call.before

\* The list of three or more elements of both bytes, set out of order, the
\* last element maxval - 1 among them.
C4_Witness ==
    /\ call.op = "convert_to_list"
    /\ unordered
    /\ Len(call.val) >= 3
    /\ call.val[Len(call.val)] = bv.maxval - 1
    /\ call.val[Len(call.val)] >= 8
    /\ call.val[1] < 8

\* C10: for every integer num, set(num) raises and changes nothing, or
\* changes the membership of num only; so every element of [0, maxval) that
\* contains() reports was the argument of a set call that returned.
C10_OnlyArgumentsAreSet ==
    /\ \A m \in Elements : (BitVector_contains(bv, m).val = TRUE) => (m \in added)
    /\ (call.op = "set") =>
          IF call.err # "none" THEN bv.ba = call.before
          ELSE \A m \in Elements \ {call.key} :
                  BitVector_contains(bv, m).val = BitVector_contains(BvBefore, m).val

(***************************************************************************)
(* NibbleVector: properties                                                *)
(***************************************************************************)
\* C5: nv[i] = v with 0 <= i < size and 0 <= v < 16 returns, and nv[i] is v
\* right after it, whatever the byte held before.
C5_SetGetRoundTrip ==
    (call.op = "setitem" /\ call.key \in Slots /\ call.value \in 0..15) =>
        /\ call.err = "none"
        /\ NibbleVector_getitem(nv, call.key).err = "none"
        /\ NibbleVector_getitem(nv, call.key).val = call.value

\* A non-zero value written over a different non-zero value, beside a
\* non-zero sibling.
C5_Witness ==
    /\ call.op = "setitem"
    /\ call.err = "none"
    /\ call.key \in Slots
    /\ call.key % 2 = 0
    /\ call.key + 1 \in Slots
    /\ call.value # 0
    /\ NibbleOf(call.before, call.key) \notin {0, call.value}
    /\ NibbleOf(call.before, call.key + 1) # 0

\* C6: nv[i] = v with a valid i and v changes the target nibble only: the
\* other half of the byte, every other byte, and so every other slot keep
\* their values, and the byte written is in 0..255.
C6_SetFrame ==
    (call.op = "setitem" /\ call.err = "none") =>
        /\ Len(nv.ba) = Len(call.before)
        /\ \A p \in 1..Len(nv.ba) :
              /\ nv.ba[p] \in 0..255
              /\ (p # (Norm(call.key) \div 2) + 1) => (nv.ba[p] = call.before[p])
        /\ \A j \in 0..(2 * Len(nv.ba) - 1) :
              (j # Norm(call.key)) => (NibbleOf(nv.ba, j) = NibbleOf(call.before, j))
        /\ \A j \in Slots \ {Norm(call.key)} :
              NibbleVector_getitem(nv, j).val = NibbleVector_getitem(NvBefore, j).val

\* An odd slot written while its even sibling and a slot of another byte
\* are non-zero.
C6_Witness ==
    /\ call.op = "setitem"
    /\ call.err = "none"
    /\ call.key = 1
    /\ nv.size >= 3
    /\ call.value # NibbleOf(call.before, 1)
    /\ NibbleOf(nv.ba, 0) # 0
    /\ NibbleOf(nv.ba, 2) # 0

\* C7: nv[i] = v with a valid i and v outside [0, 16) raises the value
\* error and changes nothing; every slot reads as a value in [0, 16).
C7_InvalidValueRejected ==
    /\ (call.op = "setitem" /\ call.key >= 0 - nv.size /\ call.key < nv.size
            /\ (call.value < 0 \/ call.value >= 16)) =>
          /\ call.err = "InvalidValue"
          /\ nv.ba = call.before
    /\ \A i \in Slots :
          /\ NibbleVector_getitem(nv, i).err = "none"
          /\ NibbleVector_getitem(nv, i).val \in 0..15

\* 16 refused for a slot of a byte that holds two non-zero nibbles.
C7_Witness ==
    /\ call.op = "setitem"
    /\ call.key \in Slots
    /\ call.value = 16
    /\ call.err = "InvalidValue"
    /\ NibbleOf(nv.ba, call.key) # 0
    /\ nv.ba[(call.key \div 2) + 1] % 16 # 0
    /\ nv.ba[(call.key \div 2) + 1] \div 16 # 0

\* C8: nv[key] and nv[key] = value with key >= size or key < -size raise the
\* index error, whatever the value, and change nothing; with
\* -size <= key < size neither raises it.
C8_IndexRange ==
    (call.op \in {"getitem", "setitem"}) =>
        IF call.key >= nv.size \/ call.key < 0 - nv.size
        THEN call.err = "OutOfRange" /\ nv.ba = call.before
        ELSE call.err # "OutOfRange"

\* An invalid value assigned at key = size, where the last byte has an
\* unused nibble, refused for the key.
C8_Witness ==
    /\ call.op = "setitem"
    /\ call.key = nv.size
    /\ nv.size % 2 = 1
    /\ call.value \in BadValues
    /\ call.err = "OutOfRange"
    /\ nv.ba[Len(nv.ba)] # 0

\* C9: a key k with -size <= k < 0 stands for size + k: nv[k] is nv[size + k]
\* in every state, and nv[k] = v leaves the vector as nv[size + k] = v does.
C9_NegativeIndexAlias ==
    /\ \A k \in (0 - nv.size)..(0 - 1) :
          /\ NibbleVector_getitem(nv, k).err = "none"
          /\ NibbleVector_getitem(nv, k).val = NibbleOf(nv.ba, nv.size + k)
          /\ NibbleVector_getitem(nv, k) = NibbleVector_getitem(nv, nv.size + k)
    /\ (call.op = "setitem" /\ call.key >= 0 - nv.size /\ call.key < 0) =>
          /\ nv = NibbleVector_setitem(NvBefore, nv.size + call.key, call.value).self
          /\ call.err = NibbleVector_setitem(NvBefore, nv.size + call.key, call.value).err
          /\ (call.err = "none") => (NibbleOf(nv.ba, nv.size + call.key) = call.value)

\* nv[-1] = v with v # 0, after which nv[-1] differs from nv[0] and from
\* what it was.
C9_Witness ==
    /\ call.op = "setitem"
    /\ call.key = 0 - 1
    /\ call.err = "none"
    /\ nv.size >= 3
    /\ call.value # 0
    /\ NibbleOf(call.before, nv.size - 1) # call.value
    /\ NibbleVector_getitem(nv, 0 - 1).val # NibbleVector_getitem(nv, 0).val
    /\ NibbleVector_getitem(nv, 0).val # 0

\* C1: a loop over the vector that has run to its end, with no assignment
\* to the vector since it started, has yielded nv[0], ..., nv[size - 1] in
\* order; the first loop and every loop started after an earlier one ended.
C1_IterationRestartable ==
    (trav = "done" /\ ~dirty) =>
        yielded = [i \in 1..nv.size |-> NibbleVector_getitem(nv, i - 1).val]

====
